---- MODULE Spec2Model ----
(***************************************************************************)
(* Model of the notification core of bilibili-comment-cleaning:            *)
(*   src/src/http/notify.rs                 Notify: the four feed pagers,  *)
(*                                          fetch (try_join!), remove      *)
(*   src/src/screens/main/notify_viewer.rs  NotifyViewer::update / view    *)
(*                                                                         *)
(* JSON values are modelled by what the code reads of them.  A number      *)
(* field is an integer; NoneU stands for every value on which as_u64()     *)
(* returns None (absent, null, wrong type, negative).  An item array is a  *)
(* pair (kind, items): kind "array" with the items, "null" (absent or      *)
(* null: is_null() holds), or "other" (present, neither null nor array).   *)
(* A panic (unwrap() on None) is the control state "panic".                *)
(***************************************************************************)
EXTENDS Integers, Sequences, FiniteSets, TLC

\* ---- bounds of the model -------------------------------------------------
MaxId == 2      \* notification ids are 1..MaxId
MaxItems == 2   \* items per page
MaxPages == 3   \* loop iterations (requests at the loop top) per pager run
MaxCur == 1     \* cursor ids / timestamps / per-item cursors are 1..MaxCur
MaxFetchPages == 2  \* loop iterations per pager when the four run under fetch
MaxTasks == 2   \* collection tasks spawned by update and not yet finished
MaxRuns == 2    \* deletion runs started in one behaviour

\* ---- values ----------------------------------------------------------------
NoneU == -1

AsU64(v) == IF v >= 0 THEN v ELSE NoneU

AsU8(n) == n % 256

GenericKinds == {"liked", "ated", "replyed"}

Kinds == GenericKinds \cup {"system"}

\* the category code each generic pager passes to Notify::new
Tp(k) == CASE k = "liked" -> 0 [] k = "replyed" -> 1 [] k = "ated" -> 2

Ids == 1..MaxId

Curs == 1..MaxCur

SysTypes == {4}

\* a constructor whose records start selected
new_selected(tp) == [tp |-> tp, is_selected |-> TRUE, system_notify_api |-> NoneU]

new(tp) == [tp |-> tp, is_selected |-> FALSE, system_notify_api |-> NoneU]

new_system_notify(tp, api_type) ==
    [tp |-> tp, is_selected |-> FALSE, system_notify_api |-> api_type]

EmptyMap == [i \in {} |-> new(0)]

\* ---- responses of the remote service ----------------------------------------
\* An item of an item array: its "id", its "type" (system feed only) and its
\* continuation value ("like_time" / "reply_time" / "at_time" / "cursor").
GenericItems == [id : Ids \cup {NoneU}, tp : {NoneU}, cur : Curs \cup {NoneU}]

SystemItems == [id : Ids \cup {NoneU}, tp : SysTypes \cup {NoneU}, cur : Curs \cup {NoneU}]

SeqsUpTo(S, n) == UNION {[1..m -> S] : m \in 0..n}

\* get_json returned Err (network / HTTP / body not JSON)
TransportFailure ==
    [status |-> "transport_error", kind |-> "null", items |-> <<>>,
     cursor_id |-> NoneU, is_end |-> "null"]

Page(kind, items, cursor_id, is_end) ==
    [status |-> "ok", kind |-> kind, items |-> items,
     cursor_id |-> cursor_id, is_end |-> is_end]

GenericPages ==
    {Page("array", its, c, e) : its \in SeqsUpTo(GenericItems, MaxItems),
                                 c \in Curs \cup {NoneU},
                                 e \in {"true", "false", "null"}}
    \cup {Page("null", <<>>, c, e) : c \in Curs \cup {NoneU},
                                     e \in {"true", "false", "null"}}

\* the system endpoints carry no cursor object and no is_end
SystemPages ==
    {Page("array", its, NoneU, "null") : its \in SeqsUpTo(SystemItems, MaxItems)}
    \cup {Page("null", <<>>, NoneU, "null"), Page("other", <<>>, NoneU, "null")}

Pages(k) == IF k = "system" THEN SystemPages ELSE GenericPages

Item(id, tp, cur) == [id |-> id, tp |-> tp, cur |-> cur]

\* The answers drawn while the four pagers run interleaved under Notify::fetch:
\* a subset of Pages(k) that keeps the product of the four runs small.  It has
\* a last page, a page to continue from, an empty array and, for the system
\* feed, an absent array and a page whose last item has no cursor.
FetchPages(k) ==
    IF k = "system"
    THEN {Page("array", <<Item(1, 4, 1)>>, NoneU, "null"),
          Page("array", <<Item(MaxId, 4, NoneU)>>, NoneU, "null"),
          Page("array", <<>>, NoneU, "null"), Page("null", <<>>, NoneU, "null")}
    ELSE {Page("array", <<Item(i, NoneU, 1)>>, 1, "true") : i \in {1, MaxId}}
         \cup {Page("array", <<Item(1, NoneU, 1)>>, 1, "false"),
               Page("array", <<>>, 1, "true")}

\* The answers drawn when the whole application runs (fetch, then the viewer
\* and the deletion runs): each generic feed has the one notification 1, on a
\* last page or on a page to continue from that lacks the cursor id, or is
\* empty; the system feed has the one notification MaxId, on either seed
\* endpoint, and then ends.  A successful fetch then hands the viewer a generic
\* and a system record.
AppPages(k) ==
    IF k = "system"
    THEN {Page("array", <<Item(MaxId, 4, 1)>>, NoneU, "null"),
          Page("array", <<>>, NoneU, "null"), Page("null", <<>>, NoneU, "null")}
    ELSE {Page("array", <<Item(1, NoneU, 1)>>, 1, "true"),
          Page("array", <<Item(1, NoneU, 1)>>, NoneU, "false"),
          Page("array", <<>>, 1, "true")}

VARIABLES
    pc,         \* pc[k]: where pager k is: "idle" (not called), "loop" (top of
                \* the loop), "fallback" (system: about to ask the secondary
                \* endpoint), or how it ended: "Ok", "EmptyFeed",
                \* "TransportError", "panic"
    h,          \* h[k]: the pager's HashMap<u64, Notify>
    queryid,    \* queryid[k], k generic: Option<u64>
    last_time,  \* last_time[k], k generic: Option<u64>
    cursor,     \* fetch_system_notify: Option<u64>
    api_type,   \* fetch_system_notify: u8
    reqs,       \* reqs[k]: the requests pager k has issued, in order
    served,     \* served[k]: the answers to them, in order
    fetch,      \* Notify::fetch: [pc, res, err]
    nv,         \* the NotifyViewer
    del,        \* one call of Notify::remove
    tasks,      \* the tasks update() has spawned on the shared collection
    lock,       \* the tokio Mutex around the collection: TRUE while held
    runs,       \* the deletion runs started by Action::DeleteNotify
    ui          \* the event loop: [on, panic, max_tasks, max_runs] and what has
                \* happened to the collection: [removed, okd, noop]

vars == <<pc, h, queryid, last_time, cursor, api_type, reqs, served, fetch, nv, del,
          tasks, lock, runs, ui>>

\* the state of the viewer's tasks and of the deletion runs
app == <<tasks, lock, runs, ui>>

Serve(k) ==
    (IF fetch.pc = "none" THEN Pages(k)
     ELSE IF ui.on THEN AppPages(k) ELSE FetchPages(k)) \cup {TransportFailure}

Last(s) == s[Len(s)]

Req(ep, id, cur) == [ep |-> ep, id |-> id, cur |-> cur]

Errors == {"EmptyFeed", "TransportError"}

\* the loop iterations pager k has begun: each begins with one request, and the
\* request to the secondary endpoint is made within the first-get iteration
Iterations(k) == Cardinality({i \in 1..Len(reqs[k]) : reqs[k][i].ep # "secondary"})

MayIterate(k) ==
    Iterations(k) < (IF fetch.pc = "none" THEN MaxPages ELSE MaxFetchPages)

\* ---- Notify::fetch: try_join! and the merge -----------------------------------
\* m1.into_iter().chain(m2)...collect(): a later entry overwrites an earlier one
Override(a, b) ==
    [i \in (DOMAIN a) \cup (DOMAIN b) |-> IF i \in DOMAIN b THEN b[i] ELSE a[i]]

\* a merge in which the earlier feed wins
MergeFirstWins(m1, m2, m3, m4) == Override(Override(Override(m4, m3), m2), m1)

Merge(m1, m2, m3, m4) == Override(Override(Override(m1, m2), m3), m4)

\* a join that waits for all four and hands out whatever the successful pagers
\* collected
join_partial(f, pcs, hs) ==
    IF f.pc # "joining" THEN f
    ELSE IF \E k \in Kinds : pcs[k] = "panic"
         THEN [pc |-> "panic", res |-> EmptyMap, err |-> "None"]
    ELSE IF \A k \in Kinds : pcs[k] \in Errors \cup {"Ok"}
         THEN [pc |-> "Ok",
               res |-> Merge(hs["liked"], hs["ated"], hs["replyed"], hs["system"]),
               err |-> "None"]
    ELSE f

\* a join that returns an Err only when all four pagers have ended
join_wait_all(f, pcs, hs) ==
    IF f.pc # "joining" THEN f
    ELSE IF \E k \in Kinds : pcs[k] = "panic"
         THEN [pc |-> "panic", res |-> EmptyMap, err |-> "None"]
    ELSE IF \A k \in Kinds : pcs[k] \in Errors \cup {"Ok"}
         THEN IF \E k \in Kinds : pcs[k] \in Errors
              THEN [pc |-> "Err", res |-> EmptyMap,
                    err |-> pcs[CHOOSE k \in Kinds : pcs[k] \in Errors]]
              ELSE [pc |-> "Ok",
                    res |-> Merge(hs["liked"], hs["ated"], hs["replyed"], hs["system"]),
                    err |-> "None"]
    ELSE f

\* One poll of try_join!(liked, ated, replyed, system) after a pager has moved:
\* a panic unwinds the whole future, the first Err is returned at once (the
\* other futures are dropped where they are), four Ok are merged in the fixed
\* order of the macro's arguments.
try_join(f, pcs, hs) ==
    IF f.pc # "joining" THEN f
    ELSE IF \E k \in Kinds : pcs[k] = "panic"
         THEN [pc |-> "panic", res |-> EmptyMap, err |-> "None"]
    ELSE IF \E k \in Kinds : pcs[k] \in Errors
         THEN [pc |-> "Err", res |-> EmptyMap,
               err |-> pcs[CHOOSE k \in Kinds : pcs[k] \in Errors]]
    ELSE IF \A k \in Kinds : pcs[k] = "Ok"
         THEN [pc |-> "Ok",
               res |-> Merge(hs["liked"], hs["ated"], hs["replyed"], hs["system"]),
               err |-> "None"]
    ELSE f

\* a pager makes progress only while its caller awaits it
Running(k) == fetch.pc \in {"none", "joining"} /\ pc[k] \in {"loop", "fallback"}

\* ---- the pagers ------------------------------------------------------------------
\* for i in notifys: h.insert(i["id"], Notify::new(tp))   (api = NoneU)
\*                   h.insert(i["id"], Notify::new_system_notify(i["type"] as u8, api))
\* a pager that keeps only the first item of each page
InsertFirstOnly(m, items, tp, api) ==
    IF items = <<>> THEN m
    ELSE LET i == Head(items)
             n == IF api = NoneU THEN new(tp) ELSE new_system_notify(AsU8(i.tp), api)
         IN Override(m, [x \in {i.id} |-> n])

RECURSIVE InsertItems(_, _, _, _)
InsertItems(m, items, tp, api) ==
    IF items = <<>> THEN m
    ELSE LET i == Head(items)
             n == IF api = NoneU THEN new(tp) ELSE new_system_notify(AsU8(i.tp), api)
         IN InsertItems(Override(m, [x \in {i.id} |-> n]), Tail(items), tp, api)

\* What one iteration of a generic pager (liked / replyed / ated) makes of the
\* answer r; seed tells the first-get branch from the continuation branch.
GenericPage(k, r, seed) ==
    LET stop(p) == [pc |-> p, h |-> h[k], queryid |-> queryid[k],
                    last_time |-> last_time[k]]
    IN  IF r.status = "transport_error" THEN stop("TransportError")
        ELSE IF r.kind # "array" THEN stop("panic")        \* as_array().unwrap()
        ELSE IF r.items = <<>>
             THEN (IF seed THEN stop("EmptyFeed")          \* return Err(i.into())
                   ELSE stop("panic"))                     \* last().unwrap()
        ELSE IF \E i \in 1..Len(r.items) : AsU64(r.items[i].id) = NoneU
             THEN stop("panic")                            \* i["id"].as_u64().unwrap()
        ELSE IF r.is_end = "null" THEN stop("panic")       \* as_bool().unwrap()
        ELSE [pc |-> IF r.is_end = "true" THEN "Ok" ELSE "loop",
              h |-> InsertItems(h[k], r.items, Tp(k), NoneU),
              queryid |-> AsU64(r.cursor_id),
              last_time |-> AsU64(Last(r.items).cur)]

GenericDone(k, o, rq, r) ==
    /\ pc' = [pc EXCEPT ![k] = o.pc]
    /\ h' = [h EXCEPT ![k] = o.h]
    /\ queryid' = [queryid EXCEPT ![k] = o.queryid]
    /\ last_time' = [last_time EXCEPT ![k] = o.last_time]
    /\ reqs' = [reqs EXCEPT ![k] = Append(@, rq)]
    /\ served' = [served EXCEPT ![k] = Append(@, r)]
    /\ fetch' = try_join(fetch, pc', h')
    /\ UNCHANGED <<cursor, api_type, nv, del, app>>

\* first get: queryid.is_none() && last_time.is_none()
GenericSeed(k) ==
    /\ Running(k)
    /\ queryid[k] = NoneU /\ last_time[k] = NoneU
    /\ MayIterate(k)
    /\ \E r \in Serve(k) :
          GenericDone(k, GenericPage(k, r, TRUE), Req("seed", NoneU, NoneU), r)

\* else branch: the url is built from queryid.unwrap() and last_time.unwrap()
\* before the request is sent
GenericCont(k) ==
    /\ Running(k)
    /\ ~(queryid[k] = NoneU /\ last_time[k] = NoneU)
    /\ IF queryid[k] = NoneU \/ last_time[k] = NoneU
       THEN /\ pc' = [pc EXCEPT ![k] = "panic"]
            /\ fetch' = try_join(fetch, pc', h)
            /\ UNCHANGED <<h, queryid, last_time, cursor, api_type, reqs, served, nv, del, app>>
       ELSE /\ MayIterate(k)
            /\ \E r \in Serve(k) :
                  GenericDone(k, GenericPage(k, r, FALSE),
                              Req("cont", queryid[k], last_time[k]), r)

fetch_liked_notify == GenericSeed("liked") \/ GenericCont("liked")

fetch_replyed_notify == GenericSeed("replyed") \/ GenericCont("replyed")

fetch_ated_notify == GenericSeed("ated") \/ GenericCont("ated")

\* What fetch_system_notify makes of a non-null seed array or of a continuation
\* array.
SystemPage(r, api, seed) ==
    LET stop(p) == [pc |-> p, h |-> h["system"], cursor |-> cursor]
    IN  IF r.kind # "array" THEN stop("panic")             \* as_array().unwrap()
        ELSE IF r.items = <<>>
             THEN (IF seed THEN stop("panic")              \* last().unwrap()
                   ELSE stop("Ok"))                        \* is_empty(): break
        ELSE IF \E i \in 1..Len(r.items) :
                    AsU64(r.items[i].id) = NoneU \/ AsU64(r.items[i].tp) = NoneU
             THEN stop("panic")                            \* as_u64().unwrap()
        ELSE [pc |-> "loop",
              h |-> InsertItems(h["system"], r.items, 0, api),
              cursor |-> AsU64(Last(r.items).cur)]

SystemDone(o, api, rq, r) ==
    /\ pc' = [pc EXCEPT !["system"] = o.pc]
    /\ h' = [h EXCEPT !["system"] = o.h]
    /\ cursor' = o.cursor
    /\ api_type' = api
    /\ reqs' = [reqs EXCEPT !["system"] = Append(@, rq)]
    /\ served' = [served EXCEPT !["system"] = Append(@, r)]
    /\ fetch' = try_join(fetch, pc', h')
    /\ UNCHANGED <<queryid, last_time, nv, del, app>>

\* a pager that also falls back when the first api answers an empty list
PrimaryIsNullOrEmpty(r) == r.kind = "null" \/ (r.kind = "array" /\ r.items = <<>>)

\* if notifys.is_null(): the first api has nothing
PrimaryIsNull(r) == r.kind = "null"

\* first get, query_user_notify; a null list sets api_type = 1 and goes on to
\* the second endpoint
SystemSeedPrimary ==
    /\ Running("system") /\ pc["system"] = "loop"
    /\ cursor = NoneU
    /\ MayIterate("system")
    /\ \E r \in Serve("system") :
          LET keep(p) == [pc |-> p, h |-> h["system"], cursor |-> cursor]
              rq == Req("primary", NoneU, NoneU)
          IN  IF r.status = "transport_error"
              THEN SystemDone(keep("TransportError"), api_type, rq, r)
              ELSE IF PrimaryIsNull(r)
              THEN SystemDone(keep("fallback"), 1, rq, r)
              ELSE SystemDone(SystemPage(r, api_type, TRUE), api_type, rq, r)

\* query_unified_notify; null again: return Err
SystemSeedSecondary ==
    /\ Running("system") /\ pc["system"] = "fallback"
    /\ \E r \in Serve("system") :
          LET keep(p) == [pc |-> p, h |-> h["system"], cursor |-> cursor]
              rq == Req("secondary", NoneU, NoneU)
          IN  IF r.status = "transport_error"
              THEN SystemDone(keep("TransportError"), api_type, rq, r)
              ELSE IF r.kind = "null"
              THEN SystemDone(keep("EmptyFeed"), api_type, rq, r)
              ELSE SystemDone(SystemPage(r, api_type, TRUE), api_type, rq, r)

\* query_notify_list with the cursor
SystemCont ==
    /\ Running("system") /\ pc["system"] = "loop"
    /\ cursor # NoneU
    /\ MayIterate("system")
    /\ \E r \in Serve("system") :
          LET keep(p) == [pc |-> p, h |-> h["system"], cursor |-> cursor]
              rq == Req("cont", NoneU, cursor)
          IN  IF r.status = "transport_error"
              THEN SystemDone(keep("TransportError"), api_type, rq, r)
              ELSE SystemDone(SystemPage(r, api_type, FALSE), api_type, rq, r)

fetch_system_notify == SystemSeedPrimary \/ SystemSeedSecondary \/ SystemCont

\* ---- NotifyViewer ---------------------------------------------------------------
NoCollection == [some |-> FALSE, map |-> EmptyMap]

NvNew ==
    [notify |-> NoCollection, is_deleting |-> FALSE, is_fetching |-> TRUE,
     select_state |-> FALSE, error |-> "None"]

NoFetch == [pc |-> "none", res |-> EmptyMap, err |-> "None"]

NoRequest ==
    [proto |-> "none", url |-> "none", ids |-> <<>>, station_ids |-> <<>>,
     tp |-> NoneU, id |-> NoneU]

NoResponse == [status |-> "none", http |-> 0, body |-> "none", code |-> 0]

NoRemove ==
    [pc |-> "idle", rec |-> new(0), id |-> NoneU, sent |-> NoRequest,
     resp |-> NoResponse, ret |-> NoneU]

\* no task, no deletion run; on tells whether the event loop of the
\* application (user events, tasks, deletion runs) is part of the behaviour,
\* max_tasks and max_runs how many tasks and deletion runs it lets be in
\* progress at the same time
UiNew(on, mt, mr) ==
    [on |-> on, panic |-> FALSE, removed |-> {}, okd |-> {}, noop |-> FALSE,
     max_tasks |-> mt, max_runs |-> mr]

AppStart(on, mt, mr) ==
    /\ tasks = {}
    /\ lock = FALSE
    /\ runs = [x \in 1..MaxRuns |->
                 [pc |-> "free", todo |-> <<>>, cur |-> [id |-> NoneU, rec |-> new(0)],
                  cancel |-> FALSE, calls |-> 0, n |-> 0,
                  stopped_at |-> NoneU, terminals |-> 0]]
    /\ ui = UiNew(on, mt, mr)

\* ---- a pager called on its own -------------------------------------------------
PagerStart(active) ==
    /\ pc = [k \in Kinds |-> IF k \in active THEN "loop" ELSE "idle"]
    /\ h = [k \in Kinds |-> EmptyMap]
    /\ queryid = [k \in GenericKinds |-> NoneU]
    /\ last_time = [k \in GenericKinds |-> NoneU]
    /\ cursor = NoneU
    /\ api_type = 0
    /\ reqs = [k \in Kinds |-> <<>>]
    /\ served = [k \in Kinds |-> <<>>]

InitPager ==
    /\ \E k \in Kinds : PagerStart({k})
    /\ fetch = NoFetch
    /\ nv = NvNew
    /\ del = NoRemove
    /\ AppStart(FALSE, 0, 0)

NextPager ==
    \/ fetch_liked_notify
    \/ fetch_replyed_notify
    \/ fetch_ated_notify
    \/ fetch_system_notify

SpecPager == InitPager /\ [][NextPager]_vars

\* ---- Notify::fetch awaited by the viewer's owner ----------------------------------
\* NvMsg::NotifysFetched(Ok(c))
NotifysFetchedOk(v, c) ==
    [v EXCEPT !.is_fetching = FALSE, !.notify = [some |-> TRUE, map |-> c]]

\* NvMsg::NotifysFetched(Err(e))
NotifysFetchedErr(v, e) ==
    [v EXCEPT !.is_fetching = FALSE, !.error = e]

\* the message that carries the result of Notify::fetch to NotifyViewer::update
NotifysFetched ==
    /\ fetch.pc \in {"Ok", "Err"}
    /\ nv' = IF fetch.pc = "Ok" THEN NotifysFetchedOk(nv, fetch.res)
                                ELSE NotifysFetchedErr(nv, fetch.err)
    /\ fetch' = [fetch EXCEPT !.pc = "delivered"]
    /\ UNCHANGED <<pc, h, queryid, last_time, cursor, api_type, reqs, served, del, app>>

\* the owner of the viewer calls Notify::fetch: four fresh pagers under try_join!
FetchStart ==
    /\ PagerStart(Kinds)
    /\ fetch = [pc |-> "joining", res |-> EmptyMap, err |-> "None"]

FetchRestart ==
    /\ pc' = [k \in Kinds |-> "loop"]
    /\ h' = [k \in Kinds |-> EmptyMap]
    /\ queryid' = [k \in GenericKinds |-> NoneU]
    /\ last_time' = [k \in GenericKinds |-> NoneU]
    /\ cursor' = NoneU
    /\ api_type' = 0
    /\ reqs' = [k \in Kinds |-> <<>>]
    /\ served' = [k \in Kinds |-> <<>>]
    /\ fetch' = [pc |-> "joining", res |-> EmptyMap, err |-> "None"]

\* NvMsg::RetryFetchNotify: the Retry button is in the view only while there is
\* no collection and an error is shown; Action::RetryFetchNotify makes the owner
\* fetch again.
RetryFetchNotify ==
    /\ ~nv.notify.some /\ nv.error # "None"
    /\ nv' = [nv EXCEPT !.error = "None", !.is_fetching = TRUE]
    /\ FetchRestart
    /\ UNCHANGED <<del, app>>

InitFetch ==
    /\ FetchStart
    /\ nv = NvNew
    /\ del = NoRemove
    /\ AppStart(FALSE, 0, 0)

NextFetch ==
    \/ fetch_liked_notify
    \/ fetch_replyed_notify
    \/ fetch_ated_notify
    \/ fetch_system_notify
    \/ NotifysFetched
    \/ RetryFetchNotify

SpecFetch == InitFetch /\ [][NextFetch]_vars

\* ---- Notify::remove ---------------------------------------------------------------
\* the records the pagers build
Records ==
    {new(t) : t \in {0, 1, 2}}
    \cup {new_system_notify(t, a) : t \in SysTypes, a \in {0, 1}}

\* What the delete endpoint may answer: no answer at all (send() fails), or an
\* HTTP status with a body that is not JSON, or JSON whose "code" is an i64
\* ("int") or on which as_i64() is None ("null": absent or of another type).
HttpStatuses == {200, 500}

Codes == {0, 1, -101}

DelResponses ==
    {[status |-> "transport_error", http |-> 0, body |-> "none", code |-> 0]}
    \cup {[status |-> "ok", http |-> s, body |-> "not_json", code |-> 0] : s \in HttpStatuses}
    \cup {[status |-> "ok", http |-> s, body |-> "null", code |-> 0] : s \in HttpStatuses}
    \cup {[status |-> "ok", http |-> s, body |-> "int", code |-> c] :
             s \in HttpStatuses, c \in Codes}

Is2xx(s) == 200 <= s /\ s <= 299

\* a remove() that always fills the ids array
RemoveRequestIdsOnly(rec, id) ==
    IF rec.system_notify_api # NoneU
    THEN [proto |-> "json", url |-> "sys-msg/del_notify_list",
          ids |-> <<id>>, station_ids |-> <<>>, tp |-> rec.tp, id |-> NoneU]
    ELSE [proto |-> "form", url |-> "msgfeed/del",
          ids |-> <<>>, station_ids |-> <<>>, tp |-> rec.tp, id |-> id]

\* the request remove() builds: match self.system_notify_api
RemoveRequest(rec, id) ==
    IF rec.system_notify_api # NoneU
    THEN IF rec.system_notify_api = 0
         THEN [proto |-> "json", url |-> "sys-msg/del_notify_list",
               ids |-> <<id>>, station_ids |-> <<>>, tp |-> rec.tp, id |-> NoneU]
         ELSE [proto |-> "json", url |-> "sys-msg/del_notify_list",
               ids |-> <<>>, station_ids |-> <<id>>, tp |-> rec.tp, id |-> NoneU]
    ELSE [proto |-> "form", url |-> "msgfeed/del",
          ids |-> <<>>, station_ids |-> <<>>, tp |-> rec.tp, id |-> id]

\* Some(api_type) branch: send().await?.json().await?, then code.as_i64().unwrap()
RemoveSystemResult(id, r) ==
    IF r.status = "transport_error" THEN [pc |-> "Err", ret |-> NoneU]
    ELSE IF r.body = "not_json" THEN [pc |-> "Err", ret |-> NoneU]
    ELSE IF r.body = "null" THEN [pc |-> "panic", ret |-> NoneU]
    ELSE IF r.code = 0 THEN [pc |-> "Ok", ret |-> id]
    ELSE [pc |-> "Err", ret |-> NoneU]

\* None branch: send().await?.error_for_status()?.json().await?, then
\* code.as_i64().ok_or(..)?
RemoveGenericResult(id, r) ==
    IF r.status = "transport_error" THEN [pc |-> "Err", ret |-> NoneU]
    ELSE IF ~Is2xx(r.http) THEN [pc |-> "Err", ret |-> NoneU]
    ELSE IF r.body = "not_json" THEN [pc |-> "Err", ret |-> NoneU]
    ELSE IF r.body = "null" THEN [pc |-> "Err", ret |-> NoneU]
    ELSE IF r.code = 0 THEN [pc |-> "Ok", ret |-> id]
    ELSE [pc |-> "Err", ret |-> NoneU]

\* remove() up to its first await: the request is on the wire
RemoveSend ==
    /\ del.pc = "call"
    /\ del' = [del EXCEPT !.pc = "sent", !.sent = RemoveRequest(del.rec, del.id)]
    /\ UNCHANGED <<pc, h, queryid, last_time, cursor, api_type, reqs, served, fetch, nv, app>>

\* remove() from the answer to its return
RemoveReceive ==
    /\ del.pc = "sent"
    /\ \E r \in DelResponses :
          LET o == IF del.rec.system_notify_api # NoneU
                   THEN RemoveSystemResult(del.id, r)
                   ELSE RemoveGenericResult(del.id, r)
          IN del' = [del EXCEPT !.pc = o.pc, !.ret = o.ret, !.resp = r]
    /\ UNCHANGED <<pc, h, queryid, last_time, cursor, api_type, reqs, served, fetch, nv, app>>

\* remove() called on any record, with any id
InitRemove ==
    /\ PagerStart({})
    /\ fetch = NoFetch
    /\ nv = NvNew
    /\ \E rec \in Records, id \in Ids :
          del = [NoRemove EXCEPT !.pc = "call", !.rec = rec, !.id = id]
    /\ AppStart(FALSE, 0, 0)

NextRemove == RemoveSend \/ RemoveReceive

SpecRemove == InitRemove /\ [][NextRemove]_vars

\* ---- NotifyViewer::update: the messages of the view and their tasks ---------------
pagers == <<pc, h, queryid, last_time, cursor, api_type, reqs, served>>

\* the event loop delivers messages while the application has not panicked
UiLive == ui.on /\ ~ui.panic

\* a view that builds the collection branch whether or not there is a collection
ViewShowsAlways(v) == TRUE

\* view(): checkboxes, select buttons, seconds input and remove / stop button
\* are built only in the branch  if let Some(comments) = &self.notify
ViewShowsCollection(v) == v.notify.some

\* the future a message hands to Task::perform
Task(op, id, b) == [op |-> op, id |-> id, b |-> b, pc |-> "wait"]

CanSpawn == Cardinality(tasks) < ui.max_tasks

\* self.notify.as_ref().unwrap() on None: update panics
UnwrapPanics ==
    /\ ui' = [ui EXCEPT !.panic = TRUE]
    /\ UNCHANGED <<pagers, fetch, nv, del, tasks, lock, runs>>

\* NvMsg::ChangeNotifyRemoveState(id, b): the checkbox of a record shown by the
\* view, toggled to the opposite of the flag it shows
ChangeNotifyRemoveState ==
    /\ UiLive /\ ViewShowsCollection(nv) /\ CanSpawn
    /\ IF ~nv.notify.some THEN UnwrapPanics
       ELSE \E id \in DOMAIN nv.notify.map :
              /\ tasks' = tasks \cup {Task("toggle", id, ~nv.notify.map[id].is_selected)}
              /\ UNCHANGED <<pagers, fetch, nv, del, lock, runs, ui>>

\* NvMsg::NotifysSelectAll: the button is "select all" while select_state holds
NotifysSelectAll ==
    /\ UiLive /\ ViewShowsCollection(nv) /\ nv.select_state /\ CanSpawn
    /\ IF ~nv.notify.some THEN UnwrapPanics
       ELSE /\ nv' = [nv EXCEPT !.select_state = FALSE]
            /\ tasks' = tasks \cup {Task("select_all", NoneU, TRUE)}
            /\ UNCHANGED <<pagers, fetch, del, lock, runs, ui>>

\* NvMsg::NotifysDeselectAll: the button is "deselect all" otherwise
NotifysDeselectAll ==
    /\ UiLive /\ ViewShowsCollection(nv) /\ ~nv.select_state /\ CanSpawn
    /\ IF ~nv.notify.some THEN UnwrapPanics
       ELSE /\ nv' = [nv EXCEPT !.select_state = TRUE]
            /\ tasks' = tasks \cup {Task("deselect_all", NoneU, FALSE)}
            /\ UNCHANGED <<pagers, fetch, del, lock, runs, ui>>

\* ---- the tasks on the shared collection ------------------------------------------------
\* a lock that is granted whether or not it is held
CanLockAlways(l) == TRUE

\* a.lock().await is granted when the Mutex is free
CanLock(l) == ~l

\* a toggle that inserts the record when the id is not in the map
ApplyTaskInsert(m, t) ==
    CASE t.op = "toggle" ->
            Override(m, [x \in {t.id} |-> [new(0) EXCEPT !.is_selected = t.b]])
      [] t.op = "select_all" -> [i \in DOMAIN m |-> [m[i] EXCEPT !.is_selected = TRUE]]
      [] t.op = "deselect_all" -> [i \in DOMAIN m |-> [m[i] EXCEPT !.is_selected = FALSE]]
      [] t.op = "remove" -> [i \in (DOMAIN m) \ {t.id} |-> m[i]]

\* what a task does to the HashMap while it holds the guard
ApplyTask(m, t) ==
    CASE t.op = "toggle" ->
            [i \in DOMAIN m |-> IF i = t.id THEN [m[i] EXCEPT !.is_selected = t.b] ELSE m[i]]
      [] t.op = "select_all" -> [i \in DOMAIN m |-> [m[i] EXCEPT !.is_selected = TRUE]]
      [] t.op = "deselect_all" -> [i \in DOMAIN m |-> [m[i] EXCEPT !.is_selected = FALSE]]
      [] t.op = "remove" -> [i \in (DOMAIN m) \ {t.id} |-> m[i]]

\* a.lock().await returns the guard
TaskLock ==
    /\ ui.on
    /\ \E t \in tasks :
          /\ t.pc = "wait"
          /\ CanLock(lock)
          /\ tasks' = (tasks \ {t}) \cup {[t EXCEPT !.pc = "locked"]}
          /\ lock' = TRUE
    /\ UNCHANGED <<pagers, fetch, nv, del, runs, ui>>

\* the mutation under the guard; the guard is dropped at the end of the
\* statement and the task ends (main::Message::RefreshUI)
TaskApply ==
    /\ ui.on
    /\ \E t \in tasks :
          /\ t.pc = "locked"
          /\ nv' = [nv EXCEPT !.notify.map = ApplyTask(@, t)]
          /\ tasks' = tasks \ {t}
          /\ lock' = FALSE
          /\ ui' = [ui EXCEPT
                      !.removed = IF t.op = "remove" THEN @ \cup {t.id} ELSE @,
                      !.noop = (t.op = "toggle" /\ t.id \notin DOMAIN nv.notify.map)]
    /\ UNCHANGED <<pagers, fetch, del, runs>>

\* ---- the deletion runs ------------------------------------------------------------
NoCall == [id |-> NoneU, rec |-> new(0)]

\* A run of the deletion worker: where it is (pc; "free": no run), the records
\* still to delete (todo), the call in flight (cur), its cancel signal, and
\* what it has done: the calls started, the number of records it was given
\* (n), the calls that had been started when cancel was signalled (stopped_at)
\* and the terminal events emitted.
FreeRun ==
    [pc |-> "free", todo |-> <<>>, cur |-> NoCall, cancel |-> FALSE, calls |-> 0,
     n |-> 0, stopped_at |-> NoneU, terminals |-> 0]

NewRun == [FreeRun EXCEPT !.pc = "start"]

RunSlots == 1..MaxRuns

RunEnded(r) == r.pc \in {"done", "panic"}

RunLive(r) == r.pc \in {"start", "check", "sent"}

\* NvMsg::DeleteNotify: from the remove button (shown while ~is_deleting) or
\* from on_submit of the seconds input (always there); Action::DeleteNotify
\* makes the owner start a deletion run on the collection
DeleteNotify ==
    /\ UiLive /\ ViewShowsCollection(nv)
    /\ Cardinality({r \in RunSlots : runs[r].pc # "free"}) < ui.max_runs
    /\ IF ~nv.notify.some THEN UnwrapPanics
       ELSE /\ nv' = [nv EXCEPT !.is_deleting = TRUE]
            /\ LET r == CHOOSE x \in RunSlots :
                           runs[x].pc = "free" /\ \A y \in 1..(x - 1) : runs[y].pc # "free"
               IN runs' = [runs EXCEPT ![r] = NewRun]
            /\ UNCHANGED <<pagers, fetch, del, tasks, lock, ui>>

\* ChannelMsg::StopDeleteComment reaches the worker: the cancel signal of every
\* run in progress is raised
SendtoChannel(rs) ==
    [r \in DOMAIN rs |-> IF RunLive(rs[r]) THEN [rs[r] EXCEPT !.cancel = TRUE] ELSE rs[r]]

\* an update that answers StopDeleteNotify with Action::None
UpdateStopNothing(rs) == rs

\* NvMsg::StopDeleteNotify => Action::SendtoChannel(ChannelMsg::StopDeleteComment)
UpdateStopDeleteNotify(rs) == SendtoChannel(rs)

\* the stop button is shown while is_deleting
StopDeleteNotify ==
    /\ UiLive /\ ViewShowsCollection(nv) /\ nv.is_deleting
    /\ LET rs == UpdateStopDeleteNotify(runs)
       IN runs' = [r \in DOMAIN rs |->
                     IF RunLive(rs[r]) /\ rs[r].stopped_at = NoneU
                     THEN [rs[r] EXCEPT !.stopped_at = rs[r].calls] ELSE rs[r]]
    /\ UNCHANGED <<pagers, fetch, nv, del, tasks, lock, ui>>

\* the orders in which a HashMap may hand out the keys S
Orderings(S) ==
    {q \in [1..Cardinality(S) -> S] : \A i, j \in 1..Cardinality(S) : i # j => q[i] # q[j]}

\* the run takes the selected records out of the collection, holding the lock
\* for the copy only
RunSnapshot ==
    /\ ui.on /\ nv.notify.some
    /\ \E r \in RunSlots :
          /\ runs[r].pc = "start"
          /\ CanLock(lock)
          /\ LET m == nv.notify.map
             IN \E q \in Orderings({i \in DOMAIN m : m[i].is_selected}) :
                   runs' = [runs EXCEPT ![r].pc = "check", ![r].n = Len(q),
                              ![r].todo = [i \in DOMAIN q |-> [id |-> q[i], rec |-> m[q[i]]]]]
    /\ UNCHANGED <<pagers, fetch, nv, del, tasks, lock, ui>>

\* NvMsg::AllNotifyDeleted
AllNotifyDeleted(v) == [v EXCEPT !.is_deleting = FALSE]

\* The top of the loop, after the sleep between two calls: a raised cancel
\* signal or an empty list ends the run with the terminal event, otherwise the
\* next record's delete call is started.
RunCheck ==
    /\ ui.on
    /\ \E r \in RunSlots :
          /\ runs[r].pc = "check"
          /\ IF runs[r].cancel \/ runs[r].todo = <<>>
             THEN /\ runs' = [runs EXCEPT ![r].pc = "done", ![r].terminals = @ + 1]
                  /\ nv' = AllNotifyDeleted(nv)
             ELSE /\ runs' = [runs EXCEPT ![r].pc = "sent", ![r].cur = Head(runs[r].todo),
                                ![r].todo = Tail(@), ![r].calls = @ + 1]
                  /\ UNCHANGED nv
    /\ UNCHANGED <<pagers, fetch, del, tasks, lock, ui>>

\* record.remove(id): match self.system_notify_api
RemoveResult(rec, id, r) ==
    IF rec.system_notify_api # NoneU THEN RemoveSystemResult(id, r)
                                     ELSE RemoveGenericResult(id, r)

\* NvMsg::NotifyDeleted { id }: the task that removes the id is spawned
NotifyDeleted(id) ==
    /\ tasks' = tasks \cup {Task("remove", id, FALSE)}
    /\ ui' = [ui EXCEPT !.okd = @ \cup {id}]

\* The delete call of a run returns: Ok(id) is reported with NotifyDeleted, an
\* Err is logged and the loop goes on, a panic in remove() unwinds the run.
RunReceive ==
    /\ ui.on
    /\ \E r \in RunSlots : \E resp \in DelResponses :
          /\ runs[r].pc = "sent"
          /\ LET o == RemoveResult(runs[r].cur.rec, runs[r].cur.id, resp)
             IN  /\ runs' = [runs EXCEPT ![r].pc = IF o.pc = "panic" THEN "panic" ELSE "check",
                               ![r].cur = NoCall]
                 /\ IF o.pc = "Ok"
                    THEN /\ Cardinality(tasks \cup {Task("remove", o.ret, FALSE)}) <= ui.max_tasks
                         /\ NotifyDeleted(o.ret)
                    ELSE UNCHANGED <<tasks, ui>>
    /\ UNCHANGED <<pagers, fetch, nv, del, lock>>

\* the task of a run that has ended is gone
RunExit ==
    /\ ui.on
    /\ \E r \in RunSlots :
          /\ RunEnded(runs[r])
          /\ runs' = [runs EXCEPT ![r] = FreeRun]
    /\ UNCHANGED <<pagers, fetch, nv, del, tasks, lock, ui>>

\* ---- the application: fetch, then the viewer, its tasks and the deletion runs ------
\* up to MaxTasks tasks at a time, one deletion run at a time
InitApp ==
    /\ FetchStart
    /\ nv = NvNew
    /\ del = NoRemove
    /\ AppStart(TRUE, MaxTasks, 1)

\* one task at a time, up to MaxRuns deletion runs at a time
InitRuns ==
    /\ FetchStart
    /\ nv = NvNew
    /\ del = NoRemove
    /\ AppStart(TRUE, 1, MaxRuns)

NextApp ==
    \/ fetch_liked_notify
    \/ fetch_replyed_notify
    \/ fetch_ated_notify
    \/ fetch_system_notify
    \/ NotifysFetched
    \/ RetryFetchNotify
    \/ ChangeNotifyRemoveState
    \/ NotifysSelectAll
    \/ NotifysDeselectAll
    \/ DeleteNotify
    \/ StopDeleteNotify
    \/ TaskLock
    \/ TaskApply
    \/ RunSnapshot
    \/ RunCheck
    \/ RunReceive
    \/ RunExit

SpecApp == InitApp /\ [][NextApp]_vars

SpecRuns == InitRuns /\ [][NextApp]_vars

\* ============================================================================
\* Properties
\* ============================================================================
IsArray(r) == r.status = "ok" /\ r.kind = "array"

IdsOn(s) == {s[i].items[j].id : <<i, j>> \in {<<i, j>> \in (1..Len(s)) \X (1..MaxItems + 1) :
                                               j <= Len(s[i].items)}}

\* a page of the wire shape of the feed: every item has a numeric id and
\* timestamp, the cursor object a numeric id and a boolean is_end
WellFormed(r) ==
    /\ IsArray(r)
    /\ \A j \in 1..Len(r.items) : r.items[j].id # NoneU /\ r.items[j].cur # NoneU
    /\ r.cursor_id # NoneU
    /\ r.is_end # "null"

\* n >= 1 non-empty pages, is_end = true on the last one only
ScriptedFeed(s) ==
    /\ Len(s) >= 1
    /\ \A i \in 1..Len(s) :
          /\ WellFormed(s[i])
          /\ s[i].items # <<>>
          /\ s[i].is_end = (IF i = Len(s) THEN "true" ELSE "false")

\* C1: a liked, replied or mentioned pager that has been served a feed of n >= 1
\* non-empty pages, only the last with is_end = true, has returned Ok with
\* exactly the ids of those pages (each a record of the feed's category) after
\* exactly n requests: one seed request, then n - 1 continuation requests.
C1_PagerReturnsEveryId ==
    \A k \in GenericKinds :
        ScriptedFeed(served[k]) =>
            /\ pc[k] = "Ok"
            /\ DOMAIN h[k] = IdsOn(served[k])
            /\ \A i \in DOMAIN h[k] : h[k][i] = new(Tp(k))
            /\ Len(reqs[k]) = Len(served[k])
            /\ reqs[k][1].ep = "seed"
            /\ \A i \in 2..Len(reqs[k]) : reqs[k][i].ep = "cont"

C1_Witness ==
    \E k \in GenericKinds :
        /\ ScriptedFeed(served[k])
        /\ Len(served[k]) >= 2
        /\ Len(served[k][1].items) = 2
        /\ Cardinality(DOMAIN h[k]) = 2
        /\ pc[k] = "Ok"

SeedEps == {"seed", "primary", "secondary"}

\* C2: for each of the four feeds, a seed page whose item array is present and
\* empty makes the pager return the EmptyFeed error.
C2_EmptySeedIsEmptyFeed ==
    \A k \in Kinds : \A i \in 1..Len(served[k]) :
        (reqs[k][i].ep \in SeedEps /\ IsArray(served[k][i]) /\ served[k][i].items = <<>>)
            => pc[k] = "EmptyFeed"

\* C3: Notify::fetch is all-or-nothing.  As soon as one pager has returned an
\* error (EmptyFeed included) fetch has returned that Err and hands out no
\* record, whatever the other pagers have collected; and the step that
\* delivers NotifysFetched(Err) leaves the viewer's collection as it was and
\* changes nothing but error and is_fetching.
C3_State ==
    (\E k \in Kinds : pc[k] \in Errors) =>
        /\ fetch.pc \in {"Err", "delivered"}
        /\ fetch.err \in Errors
        /\ fetch.res = EmptyMap

C3_Step ==
    (fetch.pc = "Err" /\ fetch'.pc = "delivered") =>
        /\ nv'.notify = nv.notify
        /\ nv' = [nv EXCEPT !.error = fetch.err, !.is_fetching = FALSE]

\* C3 (both parts): C3_State in every state, C3_Step at every step
C3_AllOrNothing == [](C3_State) /\ [][C3_Step]_vars

C3_Witness ==
    /\ fetch.pc = "delivered" /\ fetch.err = "EmptyFeed"
    /\ \E k \in Kinds : pc[k] = "Ok" /\ h[k] # EmptyMap
    /\ \E k \in Kinds : pc[k] = "EmptyFeed"
    /\ nv.error = "EmptyFeed" /\ ~nv.notify.some /\ ~nv.is_fetching

\* the record of id i in the last feed, in the order liked, mentioned (ated),
\* replied, system, that has it
LastInOrder(i) ==
    IF i \in DOMAIN h["system"] THEN h["system"][i]
    ELSE IF i \in DOMAIN h["replyed"] THEN h["replyed"][i]
    ELSE IF i \in DOMAIN h["ated"] THEN h["ated"][i]
    ELSE h["liked"][i]

\* C4: when all four pagers succeed, the merged collection has exactly the ids
\* of the four results, and for each id the record of the last feed, in the
\* order liked, mentioned, replied, system, that has it, in whatever order the
\* four pagers finished.
C4_MergeOrder ==
    (fetch.pc \in {"Ok", "delivered"} /\ fetch.err = "None") =>
        /\ \A k \in Kinds : pc[k] = "Ok"
        /\ DOMAIN fetch.res = UNION {DOMAIN h[k] : k \in Kinds}
        /\ \A i \in DOMAIN fetch.res : fetch.res[i] = LastInOrder(i)

C4_Witness ==
    /\ fetch.pc = "Ok"
    /\ \E i \in Ids :
          /\ \A k \in Kinds : i \in DOMAIN h[k]
          /\ fetch.res[i] = h["system"][i]
          /\ fetch.res[i] # h["replyed"][i]
    /\ \E i \in Ids : i \notin DOMAIN h["system"] /\ i \in DOMAIN h["ated"]
                      /\ i \in DOMAIN h["liked"] /\ i \notin DOMAIN h["replyed"]
                      /\ fetch.res[i] = new(2)

IsNullAnswer(r) == r.status = "ok" /\ r.kind = "null"

C6_OneProtocolTag ==
    /\ pc["system"] = "Ok" =>
          LET tag == IF \E i \in 1..Len(reqs["system"]) : reqs["system"][i].ep = "secondary"
                     THEN 1 ELSE 0
          IN \A i \in DOMAIN h["system"] : h["system"][i].system_notify_api = tag
    /\ \A k \in GenericKinds : \A i \in DOMAIN h[k] : h[k][i].system_notify_api = NoneU

\* C7: remove() picks the wire protocol from the record's category alone: the
\* JSON POST with ids = [id] and no station id for a primary-system record, the
\* JSON POST with station_ids = [id] and no id for a secondary-system record,
\* the form POST with the category code and the id for any other record.
C7_ProtocolByCategory ==
    del.pc \in {"sent", "Ok", "Err", "panic"} =>
        LET r == del.rec
            s == del.sent
        IN  /\ r.system_notify_api = 0 =>
                  /\ s.proto = "json" /\ s.url = "sys-msg/del_notify_list"
                  /\ s.ids = <<del.id>> /\ s.station_ids = <<>> /\ s.tp = r.tp
            /\ r.system_notify_api = 1 =>
                  /\ s.proto = "json" /\ s.url = "sys-msg/del_notify_list"
                  /\ s.ids = <<>> /\ s.station_ids = <<del.id>> /\ s.tp = r.tp
            /\ r.system_notify_api = NoneU =>
                  /\ s.proto = "form" /\ s.url = "msgfeed/del"
                  /\ s.tp = r.tp /\ s.id = del.id
                  /\ s.ids = <<>> /\ s.station_ids = <<>>
            /\ ~(s.ids # <<>> /\ s.station_ids # <<>>)

C7_Witness ==
    /\ del.pc = "sent"
    /\ del.rec.system_notify_api = 1
    /\ del.sent.station_ids = <<del.id>>

FailedDelete(r) ==
    \/ r.status = "transport_error"
    \/ r.status = "ok" /\ r.body = "null"
    \/ r.status = "ok" /\ r.body = "int" /\ r.code # 0

\* C8: remove() never panics; a transport failure, a non-zero code and a code
\* that is missing or no integer each make it return Err.
C8_RemoveReturnsErr ==
    /\ del.pc # "panic"
    /\ (del.pc \in {"Ok", "Err", "panic"} /\ FailedDelete(del.resp)) => del.pc = "Err"

\* C9: remove() returns Ok only for a 2xx answer whose code is 0, and the Ok
\* value is the id it was called with.
C9_OkOnly2xxCodeZero ==
    del.pc = "Ok" =>
        /\ del.resp.status = "ok" /\ Is2xx(del.resp.http)
        /\ del.resp.body = "int" /\ del.resp.code = 0
        /\ del.ret = del.id

\* C10: no answer, whatever field it lacks or mistypes, makes a pager or
\* Notify::fetch panic: the pager returns Err.
C10_NoPagerPanics ==
    /\ \A k \in Kinds : pc[k] # "panic"
    /\ fetch.pc # "panic"

\* a page on which the loop is to stop: an item array, every item of it with a
\* numeric id (and type, on the system feed), that is empty or comes with
\* is_end = true
StopPage(k, r) ==
    /\ IsArray(r)
    /\ \A j \in 1..Len(r.items) :
          r.items[j].id # NoneU /\ (k = "system" => r.items[j].tp # NoneU)
    /\ (r.is_end = "true" \/ r.items = <<>>)

\* C11: for each of the four feeds, a continuation page that has is_end = true
\* or no item is the last page the pager asks for, and the pager returns Ok
\* with the records collected so far.
C11_StopOnEndOrEmpty ==
    \A k \in Kinds : \A i \in 1..Len(reqs[k]) :
        (reqs[k][i].ep = "cont" /\ StopPage(k, served[k][i])) =>
            /\ i = Len(reqs[k])
            /\ pc[k] = "Ok"
            /\ DOMAIN h[k] = IdsOn(served[k])

\* C17: in a run of any pager the first request is the cursor-less seed request
\* and it is the only one (on the system feed the secondary seed request may
\* follow it at once); every later request is a continuation request that
\* carries the cursor values of the page before it.
C17_SeedOnce ==
    \A k \in Kinds : \A i \in 1..Len(reqs[k]) :
        /\ i = 1 => reqs[k][i].ep \in {"seed", "primary"}
        /\ i > 1 =>
              \/ reqs[k][i].ep = "secondary" /\ i = 2 /\ reqs[k][1].ep = "primary"
              \/ /\ reqs[k][i].ep = "cont"
                 /\ reqs[k][i].cur = Last(served[k][i - 1].items).cur
                 /\ k # "system" => reqs[k][i].id = served[k][i - 1].cursor_id

Ended(k) == pc[k] \in Errors \cup {"Ok", "panic"}

\* C12 as claimed: Notify::fetch has returned, Ok or Err, only when all four
\* pagers have ended.
C12_WaitsForAllFour ==
    fetch.pc \in {"Ok", "Err", "panic", "delivered"} => \A k \in Kinds : Ended(k)

\* C12 as amended: fetch returns Ok only when all four pagers have returned Ok;
\* it fails as soon as the first pager fails, and from then on the pagers that
\* were still running stay where they are and make no request.
C12_State ==
    /\ (fetch.pc \in {"Ok", "delivered"} /\ fetch.err = "None") =>
          \A k \in Kinds : pc[k] = "Ok"
    /\ (\E k \in Kinds : pc[k] \in Errors \cup {"panic"}) => fetch.pc # "joining"

C12_Step ==
    (fetch.pc # "joining" /\ fetch'.pc # "joining") => (reqs' = reqs /\ pc' = pc)

C12_ReturnsOnFirstFailure == [](C12_State) /\ [][C12_Step]_vars

C12_Witness ==
    /\ fetch.pc = "Err"
    /\ \E k \in Kinds : pc[k] = "loop" /\ h[k] # EmptyMap
    /\ \E k \in Kinds : pc[k] = "Ok"

C14_OneCallInFlight ==
    Cardinality({r \in RunSlots : runs[r].pc = "sent"}) <= 1

\* C15: every deletion run that has ended has emitted exactly one terminal
\* event, and is_deleting is not left true when no run is in progress.
C15_TerminalEvent ==
    /\ \A r \in RunSlots : RunEnded(runs[r]) => runs[r].terminals = 1
    /\ (\A r \in RunSlots : ~RunLive(runs[r])) => ~nv.is_deleting

\* C16: a record leaves the collection only in the step of a NotifyDeleted
\* task for its id, after a delete call for that id has returned Ok, and that
\* step leaves every other entry as it was; the return of a delete call itself
\* leaves the collection alone and the loop goes on, whatever the outcome.
C16_Step ==
    LET m == nv.notify.map
        m2 == nv'.notify.map
    IN  nv.notify.some =>
          /\ \A id \in (DOMAIN m) \ (DOMAIN m2) :
                /\ \E t \in tasks \ tasks' : t.op = "remove" /\ t.id = id
                /\ id \in ui.okd
                /\ m2 = [i \in (DOMAIN m) \ {id} |-> m[i]]
          /\ \A r \in RunSlots :
                (runs[r].pc = "sent" /\ runs'[r].pc # "sent") =>
                    /\ runs'[r].pc = "check"
                    /\ nv' = nv

C16_RemovedOnlyOnSuccess == [][C16_Step]_vars

C19_NoResurrection ==
    nv.notify.some =>
        LET m == nv.notify.map
        IN  /\ DOMAIN m \subseteq DOMAIN fetch.res
            /\ ui.removed \cap DOMAIN m = {}
            /\ \A i \in DOMAIN m : [m[i] EXCEPT !.is_selected = FALSE] = fetch.res[i]

C19_Witness ==
    /\ ui.noop /\ ui.removed # {}
    /\ \E i \in DOMAIN nv.notify.map : nv.notify.map[i].is_selected

\* C20: update never unwraps an absent collection, and a collection that has
\* been set stays set.
C20_State == ~ui.panic

C20_Step == nv.notify.some => nv'.notify.some

Selected(v) ==
    IF v.notify.some THEN {i \in DOMAIN v.notify.map : v.notify.map[i].is_selected}
    ELSE {}

\* C21: every record a pager has built and every record of the collection
\* Notify::fetch returns has its selection flag false, and a record's flag
\* becomes true only in the step of a ChangeNotifyRemoveState(id, true) task for
\* its id or of a NotifysSelectAll task; no step of a pager, of the merge, of
\* the delivery of the fetch or of a deletion run sets a flag.
C21_State ==
    /\ \A k \in Kinds : \A i \in DOMAIN h[k] : ~h[k][i].is_selected
    /\ \A i \in DOMAIN fetch.res : ~fetch.res[i].is_selected

C21_Step ==
    LET before == Selected(nv)
        after == Selected(nv')
    IN  \A i \in after \ before :
            \E t \in tasks \ tasks' :
                /\ t.pc = "locked"
                /\ \/ t.op = "select_all"
                   \/ t.op = "toggle" /\ t.id = i /\ t.b

C21_SelectedOnlyByUser == [](C21_State) /\ [][C21_Step]_vars

C21_Witness ==
    /\ fetch.pc = "delivered"
    /\ Selected(nv) # {}
    /\ DOMAIN nv.notify.map # Selected(nv)
    /\ \E r \in RunSlots : runs[r].pc = "sent"

====
